---- MODULE Spec2Model ----
(***************************************************************************)
(* State-machine model of c_http_core: the HTTP/1.1 connection engine      *)
(* (http11.py), the response body stream (streams.py) and the connection   *)
(* pool with its pooled client (connection_pool.py).                       *)
(*                                                                         *)
(* Scheduling is asyncio's: one task runs at a time and gives up control   *)
(* only at an await that really suspends (asyncio.wait_for around a stream *)
(* read or write, backend.connect_tcp, a contended asyncio.Lock, awaiting  *)
(* a cancelled task).  `running` names the task that holds the event loop  *)
(* between two such points; 0 means every task is suspended.               *)
(* stream.aclose() never suspends in either stream implementation          *)
(* (network/mock.py:79, network/epoll.py:148), so HTTP11Connection's        *)
(* _state_lock is never contended and is not a variable of the model.      *)
(***************************************************************************)
EXTENDS Integers, Sequences, FiniteSets, TLC

\* ---------------------------------------------------------------- bounds
NumTasks == 2
MaxConns == 2
NumOrigins == 2
MaxBody == 1
\* bytes of a message head, in the unit body sizes are counted in
HeadBytes == 1
\* chunks a caller's RequestStream holds
ReqChunks == 1
\* iterations of a request stream whose yields are kept
MaxPasses == 2
MaxTime == 2
\* the largest max_bytes of a read, and the bytes the socket's receive buffer
\* holds
MaxRead == 3
SockBuf == 3
\* _response_closed calls counted per response body (the last value: or more)
MaxNotified == 2
\* configuration values the model runs with (ConnectionPool.__init__)
MaxRequests == 2
MaxPerHost == 1
MaxTotal == 1
KeepAliveTimeout == 1

Tasks == 1..NumTasks
ConnIds == 1..MaxConns
Origins == 1..NumOrigins
\* the tasks that take locks: the callers and the pool's cleanup task
Reaper == NumTasks + 1
Actors == Tasks \cup {Reaper}

VARIABLES
    \* HTTP11Connection, one per connection id ("none": not constructed)
    state,          \* _state
    streamClosed,   \* _stream closed
    requestCount,   \* _request_count
    idleSince,      \* _idle_since (-1: None)
    ourState,       \* _h11_connection.our_state
    theirState,     \* _h11_connection.their_state
    keepAlive,      \* h11's keep-alive flag of the connection
    bodyLeft,       \* body units of the current response h11 has not emitted
    buffered,       \* body units already in h11's receive buffer
    rs,             \* the ResponseStream of the connection's latest response
    origin,         \* origin the pool created the connection for (0: none)
    \* ConnectionPool / PooledHTTPClient
    poolMap,        \* _connections: origin -> list of connections
    poolClosed,     \* _closed
    poolLock,       \* _lock holder (0: free)
    reaper,         \* _cleanup_task: "none", "running", "cancelled"
    holder,         \* callers get_connection returned the connection to
    sockets,        \* connections the backend will still accept
    \* callers
    pc, op, res, via, treq,
    reqStream,      \* the RequestStream each caller owns
    running, now,
    \* EpollNetworkStream: one stream over a non-blocking socket and its reader
    sock,
    \* the locks: asyncio.Lock of each connection, and what each task still
    \* has to do of the operation it is in (acquire, release, await)
    stateLock, prog

connVars == <<state, streamClosed, requestCount, idleSince, ourState, theirState,
              keepAlive, bodyLeft, buffered, rs, origin>>
poolVars == <<poolMap, poolClosed, poolLock, reaper, holder, sockets>>
taskVars == <<pc, op, res, via, treq, reqStream, running>>
lockVars == <<stateLock, prog>>
vars == <<connVars, poolVars, taskVars, now, sock, lockVars>>

\* ResponseStream.__init__: content_length (declared, -1: None), chunked,
\* _bytes_read 0, _closed False, no iterator; received: what the reads of the
\* response have added to the connection's _bytes_received
NoStream == [made |-> FALSE, owner |-> 0, closed |-> FALSE, coro |-> "none", iter |-> "none",
             iterated |-> FALSE, eob |-> FALSE, notified |-> 0,
             declared |-> -1, chunked |-> FALSE, bytesRead |-> 0, received |-> 0]
NoSnap == [st |-> "none", sc |-> FALSE, eob |-> FALSE, rc |-> 0]
\* sent, recv: what the call has added to _bytes_sent and _bytes_received;
\* wire, read: the bytes the stream has taken from the call and given to it
NoOp == [name |-> "none", conn |-> 0, org |-> 0, wrote |-> FALSE,
         sent |-> 0, recv |-> 0, wire |-> 0, read |-> 0,
         pre |-> NoSnap, post |-> NoSnap]
\* a request: Connection: close, the size of its body (0: no stream), and
\* whether the caller's headers carry the Content-Length of the body
NoReq == [close |-> FALSE, body |-> 0, framed |-> TRUE]
\* RequestStream.__init__ over a list of ReqChunks one-byte chunks: kind and
\* size describe _data (for an async producer, pos is how many chunks it has
\* produced), declared is content_length (-1: None), _closed False, _iterator
\* None (iter -1); iter k >= 0: an iterator whose next chunk is the k-th;
\* yielded: the chunks pulled since __aiter__ (-1: no iteration under way);
\* passes: what the first iterations that ran to their end yielded
\* args: the arguments of the caller's latest RequestStream(...)
NoReqStream == [kind |-> "list", size |-> ReqChunks, declared |-> -1,
                closed |-> FALSE, iter |-> -1, pos |-> 0,
                yielded |-> -1, passes |-> <<>>,
                args |-> [kind |-> "list", size |-> ReqChunks, cl |-> -1]]

\* ------------------------------------------------------------ scheduling
Sched(t) == running \in {0, t}

\* the caller holds a reference to connection c: a connection built by the
\* caller's program is shared by its tasks, a pooled one is reached only
\* through get_connection, until it is returned
HasRef(t, c) == origin[c] = 0 \/ t \in holder[c]

\* positions at which a caller is suspended inside a call
HRPhases == {"hr_send_head", "hr_send_body", "hr_send_eom", "hr_recv_head"}
Suspended == HRPhases \cup {"body_read", "gc_lock", "gc_connect", "rc_lock",
                            "stop_lock"}

\* what a caller can observe of connection c: its state, whether its stream is
\* closed, whether its response body has reported end-of-body
Snap(c) == [st |-> state[c], sc |-> streamClosed[c], eob |-> rs[c].eob,
            rc |-> requestCount[c]]
SnapAfter(c) == [st |-> state'[c], sc |-> streamClosed'[c], eob |-> rs'[c].eob,
                 rc |-> requestCount'[c]]

\* op, res and wrote describe the call a task is in or has just left: f with
\* task t's entry set to new, and the entries of the other tasks that are
\* between calls blanked
Fade(f, t, new, blank) ==
    [u \in Tasks |-> IF u = t THEN new
                     ELSE IF pc[u] = "idle" THEN blank ELSE f[u]]

\* a step of the loop itself: every task between calls is blanked
FadeAll ==
    /\ op' = [u \in Tasks |-> IF pc[u] = "idle" THEN NoOp ELSE op[u]]
    /\ res' = [u \in Tasks |-> IF pc[u] = "idle" THEN "none" ELSE res[u]]

\* a call starts on connection c: op records the call and what it found
OpBegin(t, name, c) ==
    op' = Fade(op, t, [NoOp EXCEPT !.name = name, !.conn = c, !.org = origin[c],
                                   !.pre = Snap(c),
                                   !.post = IF pc'[t] \in Suspended THEN NoSnap
                                            ELSE SnapAfter(c)], NoOp)

\* A mutant of the byte counters: a write or read counts as one byte.
CountedOnce(n) == IF n > 0 THEN 1 ELSE 0

\* _bytes_sent += len(data), _bytes_received += len(data)
Counted(n) == n

\* a suspended call goes on, its write taking wr bytes and its read bringing
\* rd bytes: op records what it leaves when it returns or raises
OpStepIO(t, w, wr, rd) ==
    op' = Fade(op, t, [op[t] EXCEPT !.wrote = @ \/ w,
                                    !.wire = @ + wr,
                                    !.sent = @ + Counted(wr),
                                    !.read = @ + rd,
                                    !.recv = @ + Counted(rd),
                                    !.post = IF pc'[t] \in Suspended THEN NoSnap
                                             ELSE SnapAfter(op[t].conn)], NoOp)

OpStepWrote(t, w) == OpStepIO(t, w, 0, 0)

OpStep(t) == OpStepWrote(t, FALSE)

\* ------------------------------------------------------------------ h11
\* h11.Connection.send(Request): our IDLE -> SEND_BODY, their IDLE -> SEND_RESPONSE
H11TheirAfterRequest(their) == IF their = "IDLE" THEN "SEND_RESPONSE" ELSE their

\* A mutant of h11's end of message: the keep-alive flag is ignored.
H11DoneAnyway(ka) == "DONE"

\* h11: a side that reaches DONE with keep-alive disabled goes to MUST_CLOSE
H11Done(ka) == IF ka THEN "DONE" ELSE "MUST_CLOSE"

\* h11's framing of a response body whose head is h (te: Transfer-Encoding:
\* chunked is present; cl: the Content-Length value, -1 when absent): chunked
\* decoding comes first, then the declared length
H11BodyFraming(h) ==
    IF h.te THEN "chunked"
    ELSE IF h.cl >= 0 THEN "content-length"
    ELSE "http/1.0"

\* h11 emits n body bytes for the head h: the declared length, or whatever the
\* chunks hold
H11Frames(h, n) ==
    CASE H11BodyFraming(h) = "chunked" -> TRUE
      [] H11BodyFraming(h) = "content-length" -> n = h.cl
      [] OTHER -> FALSE

\* ------------------------------------------------- HTTP11Connection helpers
\* _get_content_length: the integer of the Content-Length header, or None
GetContentLength(h) == IF h.cl >= 0 THEN h.cl ELSE -1

\* _is_chunked: Transfer-Encoding contains "chunked"
IsChunked(h) == h.te

\* A mutant of _can_reuse_connection: every connection is reusable.
CanReuseAlways(their) == TRUE

\* _can_reuse_connection: their_state must be DONE (h11.Connection has no
\* attribute they_closed, so the second test never runs)
CanReuseConnection(their) == their = "DONE"

\* A mutant of the except clauses of handle_request: the state is left alone.
HandlerStateKept(s) == s

\* the except clauses of handle_request: self._state = ConnectionState.CLOSED
HandlerState(s) == "closed"

\* A mutant of _acquire_connection: a CLOSED connection is not refused.
AcquireClosedOk(s) == IF s = "active" THEN "busy" ELSE "ok"

\* A mutant of _acquire_connection: an ACTIVE connection is not refused.
AcquireNoBusy(s) == IF s = "closed" THEN "closed" ELSE "ok"

\* _acquire_connection: what the state check answers
Acquire(s) ==
    IF s = "closed" THEN "closed"
    ELSE IF s = "active" THEN "busy"
    ELSE "ok"

\* where a caller continues when its call returns or raises
After(t, callName) ==
    IF via[t] = "client"
    THEN CASE callName = "get" -> "cl_hr"
           [] callName = "hr" -> "cl_return"
           [] OTHER -> "idle"
    ELSE "idle"

RunAfter(t, callName) ==
    IF via[t] = "client" /\ callName \in {"get", "hr"} THEN t ELSE 0

\* handle_request's except clauses, then the raise
HRFail(t, c, kind) ==
    /\ state' = [state EXCEPT ![c] = HandlerState(state[c])]
    /\ streamClosed' = [streamClosed EXCEPT ![c] = TRUE]
    /\ res' = Fade(res, t, kind, "none")
    /\ treq' = [treq EXCEPT ![t] = NoReq]
    /\ pc' = [pc EXCEPT ![t] = After(t, "hr")]
    /\ running' = RunAfter(t, "hr")

\* ---------------------------------------------------------- handle_request
\* A mutant of the max_requests check: one call more passes.
ExceededLate(n) == n > MaxRequests + 1

\* `if self._request_count > self._max_requests`, on the counter after the
\* increment. (reset_metrics zeroes the counter; it is no handle_request call
\* and the callers modelled here do not use it.)
Exceeded(n) == n > MaxRequests

\* handle_request up to its first suspension: the counter, the max_requests
\* check, _acquire_connection
HRStart(t, c, rq) ==
    /\ Sched(t)
    /\ \/ pc[t] = "idle" /\ via[t] = "direct" /\ HasRef(t, c)
       \/ pc[t] = "cl_hr" /\ op[t].conn = c
    /\ state[c] # "none"
    /\ requestCount[c] <= MaxRequests
    /\ requestCount' = [requestCount EXCEPT ![c] = @ + 1]
    /\ IF Exceeded(requestCount[c] + 1)
       THEN \* await self.close(); raise ConnectionError
            /\ state' = [state EXCEPT ![c] = "closed"]
            /\ streamClosed' = [streamClosed EXCEPT ![c] = TRUE]
            /\ res' = Fade(res, t, "exceeded", "none")
            /\ treq' = [treq EXCEPT ![t] = NoReq]
            /\ pc' = [pc EXCEPT ![t] = After(t, "hr")]
            /\ running' = RunAfter(t, "hr")
       ELSE IF Acquire(state[c]) # "ok"
       THEN HRFail(t, c, Acquire(state[c]))
       ELSE /\ state' = [state EXCEPT ![c] = "active"]
            /\ res' = Fade(res, t, "pending", "none")
            /\ treq' = [treq EXCEPT ![t] = rq]
            /\ pc' = [pc EXCEPT ![t] = "hr_send_head"]
            /\ running' = 0
            /\ UNCHANGED streamClosed
    /\ UNCHANGED <<idleSince, ourState, theirState, keepAlive, bodyLeft, buffered,
                   rs, origin, poolVars, via, now>>
    /\ OpBegin(t, "hr", c)
    /\ UNCHANGED <<reqStream, sock, lockVars>>

\* A mutant of _send_request: after the head it returns at once.
SendPhaseSkipped(body) == "hr_recv_head"

\* _send_request after the head: `if request.stream:` the body chunks, then
\* EndOfMessage; _receive_response starts when _send_request has returned
SendPhase(body) == IF body > 0 THEN "hr_send_body" ELSE "hr_send_eom"

\* _send_request: the head, h11.send(Request) then stream.write
HRSendHead(t, out) ==
    LET c == op[t].conn IN
    /\ Sched(t)
    /\ pc[t] = "hr_send_head"
    /\ IF ourState[c] # "IDLE"
       THEN \* h11.LocalProtocolError
            /\ HRFail(t, c, "h11_local")
            /\ UNCHANGED <<ourState, theirState, keepAlive>>
       ELSE /\ ourState' = [ourState EXCEPT ![c] = "SEND_BODY"]
            /\ theirState' = [theirState EXCEPT ![c] = H11TheirAfterRequest(@)]
            /\ keepAlive' = [keepAlive EXCEPT ![c] = @ /\ ~treq[t].close]
            /\ IF streamClosed[c]
               THEN \* stream.write raises RuntimeError("Stream is closed")
                    HRFail(t, c, "transport")
               ELSE IF out = "ok"
                    THEN /\ pc' = [pc EXCEPT ![t] = SendPhase(treq[t].body)]
                         /\ running' = 0
                         /\ UNCHANGED <<state, streamClosed, res, treq>>
                    ELSE HRFail(t, c, out)
    /\ UNCHANGED <<requestCount, idleSince, bodyLeft, buffered, rs, origin,
                   poolVars, via, now>>
    /\ OpStepIO(t, ourState[c] = "IDLE" /\ ~streamClosed[c],
                IF ourState[c] = "IDLE" /\ ~streamClosed[c] /\ out = "ok"
                THEN HeadBytes ELSE 0, 0)
    /\ UNCHANGED <<reqStream, sock, lockVars>>

\* _send_request: one chunk of the request body, h11.send(Data) then write
HRSendBody(t, out) ==
    LET c == op[t].conn IN
    /\ Sched(t)
    /\ pc[t] = "hr_send_body"
    /\ IF ourState[c] # "SEND_BODY"
       THEN HRFail(t, c, "h11_local")
       ELSE IF ~treq[t].framed
       THEN \* request.headers went to h11 as given: without a framing header
            \* h11 frames the request as Content-Length: 0 and refuses the
            \* Data event (LocalProtocolError, too much data)
            HRFail(t, c, "h11_length")
       ELSE IF streamClosed[c]
       THEN HRFail(t, c, "transport")
       ELSE IF out = "ok"
            THEN /\ pc' = [pc EXCEPT ![t] = "hr_send_eom"]
                 /\ running' = 0
                 /\ UNCHANGED <<state, streamClosed, res, treq>>
            ELSE HRFail(t, c, out)
    /\ UNCHANGED <<requestCount, idleSince, ourState, theirState, keepAlive,
                   bodyLeft, buffered, rs, origin, poolVars, via, now>>
    /\ LET sends == ourState[c] = "SEND_BODY" /\ treq[t].framed /\ ~streamClosed[c]
       IN OpStepIO(t, sends, IF sends /\ out = "ok" THEN treq[t].body ELSE 0, 0)
    /\ UNCHANGED <<reqStream, sock, lockVars>>

\* _send_request: h11.send(EndOfMessage) (no bytes with Content-Length
\* framing), then _receive_response up to its first stream.read
HRSendEOM(t) ==
    LET c == op[t].conn IN
    /\ Sched(t)
    /\ pc[t] = "hr_send_eom"
    /\ IF ourState[c] # "SEND_BODY"
       THEN HRFail(t, c, "h11_local") /\ UNCHANGED ourState
       ELSE /\ ourState' = [ourState EXCEPT ![c] = H11Done(keepAlive[c])]
            /\ treq' = [treq EXCEPT ![t] = NoReq]
            /\ pc' = [pc EXCEPT ![t] = "hr_recv_head"]
            /\ running' = 0
            /\ UNCHANGED <<state, streamClosed, res>>
    /\ UNCHANGED <<requestCount, idleSince, theirState, keepAlive, bodyLeft,
                   buffered, rs, origin, poolVars, via, now>>
    /\ OpStep(t)
    /\ UNCHANGED <<reqStream, sock, lockVars>>

\* _receive_response: the stream.read that brings the response head (or fails)
HRRecvHead(t, out, respClose, n, b, h) ==
    LET c == op[t].conn IN
    /\ Sched(t)
    /\ pc[t] = "hr_recv_head"
    /\ IF streamClosed[c]
       THEN HRFail(t, c, "transport")
            /\ UNCHANGED <<theirState, keepAlive, ourState, bodyLeft, buffered, rs>>
       ELSE IF out # "ok"
       THEN \* b"" -> ProtocolError; an exception of the stream; asyncio.TimeoutError
            HRFail(t, c, out)
            /\ UNCHANGED <<theirState, keepAlive, ourState, bodyLeft, buffered, rs>>
       ELSE \* h11.Response: the ResponseStream is created and returned
            /\ theirState' = [theirState EXCEPT ![c] = "SEND_BODY"]
            /\ keepAlive' = [keepAlive EXCEPT ![c] = @ /\ ~respClose]
            /\ ourState' = [ourState EXCEPT ![c] =
                   IF @ = "DONE" /\ ~(keepAlive[c] /\ ~respClose)
                   THEN "MUST_CLOSE" ELSE @]
            /\ bodyLeft' = [bodyLeft EXCEPT ![c] = n]
            /\ buffered' = [buffered EXCEPT ![c] = b]
            /\ rs' = [rs EXCEPT ![c] = [NoStream EXCEPT !.made = TRUE, !.owner = t,
                                                        !.received = Counted(HeadBytes + b),
                                                        !.declared = GetContentLength(h),
                                                        !.chunked = IsChunked(h)]]
            /\ res' = Fade(res, t, "ok", "none")
            /\ pc' = [pc EXCEPT ![t] = After(t, "hr")]
            /\ running' = RunAfter(t, "hr")
            /\ UNCHANGED <<state, streamClosed, treq>>
    /\ UNCHANGED <<requestCount, idleSince, origin, poolVars, via, now>>
    /\ OpStepIO(t, FALSE, 0,
                IF ~streamClosed[c] /\ out = "ok" THEN HeadBytes + b ELSE 0)
    /\ UNCHANGED <<reqStream, sock, lockVars>>

\* the task awaiting handle_request is cancelled at a stream write or read:
\* asyncio.CancelledError is a BaseException (python_requires >= 3.8), which
\* neither except clause of handle_request catches
HRCancel(t) ==
    /\ Sched(t)
    /\ pc[t] \in HRPhases
    /\ res' = Fade(res, t, "cancelled", "none")
    /\ treq' = [treq EXCEPT ![t] = NoReq]
    /\ pc' = [pc EXCEPT ![t] = "idle"]
    /\ running' = 0
    /\ UNCHANGED <<connVars, poolVars, via, now>>
    /\ OpStep(t)
    /\ UNCHANGED <<reqStream, sock, lockVars>>

\* ------------------------------------------------------------------ close
\* HTTP11Connection.close
ConnClose(t, c) ==
    /\ Sched(t)
    /\ pc[t] = "idle" /\ via[t] = "direct" /\ HasRef(t, c)
    /\ state[c] # "none"
    /\ res' = Fade(res, t, "ok", "none")
    /\ IF state[c] # "closed"
       THEN /\ state' = [state EXCEPT ![c] = "closed"]
            /\ streamClosed' = [streamClosed EXCEPT ![c] = TRUE]
       ELSE UNCHANGED <<state, streamClosed>>
    /\ running' = 0
    /\ UNCHANGED <<requestCount, idleSince, ourState, theirState, keepAlive,
                   bodyLeft, buffered, rs, origin, poolVars, pc, via, treq, now>>
    /\ OpBegin(t, "close", c)
    /\ UNCHANGED <<reqStream, sock, lockVars>>

\* ------------------------------------------------------------ ResponseStream
\* _release_connection, called by _response_closed, on h11 states our/their:
\* an ACTIVE connection becomes IDLE (start_next_cycle) or CLOSED (stream closed)
Release(c, our, their) ==
    IF state[c] = "active"
    THEN IF CanReuseConnection(their)
         THEN /\ state' = [state EXCEPT ![c] = "idle"]
              /\ idleSince' = [idleSince EXCEPT ![c] = now]
              /\ IF our = "DONE" /\ their = "DONE"
                 THEN /\ ourState' = [ourState EXCEPT ![c] = "IDLE"]
                      /\ theirState' = [theirState EXCEPT ![c] = "IDLE"]
                 ELSE /\ ourState' = [ourState EXCEPT ![c] = our]
                      /\ theirState' = [theirState EXCEPT ![c] = their]
              /\ UNCHANGED streamClosed
         ELSE /\ state' = [state EXCEPT ![c] = "closed"]
              /\ streamClosed' = [streamClosed EXCEPT ![c] = TRUE]
              /\ ourState' = [ourState EXCEPT ![c] = our]
              /\ theirState' = [theirState EXCEPT ![c] = their]
              /\ UNCHANGED idleSince
    ELSE /\ ourState' = [ourState EXCEPT ![c] = our]
         /\ theirState' = [theirState EXCEPT ![c] = their]
         /\ UNCHANGED <<state, streamClosed, idleSince>>

\* one more call of _response_closed by the body of connection c
Notified(n) == IF n < MaxNotified THEN n + 1 ELSE n

\* start_next_cycle raises h11.LocalProtocolError unless both sides are DONE
ReleaseRaises(c, our, their) ==
    /\ state[c] = "active"
    /\ CanReuseConnection(their)
    /\ ~(our = "DONE" /\ their = "DONE")

\* _receive_body_chunk, after a read of rd bytes (0: none was needed), returns
\* k body units (k = 0: h11.EndOfMessage, None) to
\* __anext__, which stores the value in _iterator and calls next() on it: a
\* TypeError, handled by `except Exception`: _response_closed, then StreamError.
\* The lines after next() (_bytes_read += len(chunk), the content_length test)
\* are not reached, so bytesRead keeps the 0 of __init__.
Deliver(t, c, k, rd) ==
    LET their == IF k = 0 THEN H11Done(keepAlive[c]) ELSE theirState[c] IN
    /\ bodyLeft' = [bodyLeft EXCEPT ![c] = @ - k]
    /\ buffered' = [buffered EXCEPT ![c] = 0]
    /\ rs' = [rs EXCEPT ![c].coro = "none",
                        ![c].iter = IF k = 0 THEN "none" ELSE "chunk",
                        ![c].eob = (k = 0),
                        ![c].received = @ + Counted(rd),
                        ![c].notified = Notified(@)]
    /\ Release(c, ourState[c], their)
    /\ res' = Fade(res, t, IF ReleaseRaises(c, ourState[c], their) THEN "h11_local"
                            ELSE "stream_error", "none")
    /\ pc' = [pc EXCEPT ![t] = "idle"]
    /\ running' = 0

\* ResponseStream.__aiter__ (a caller iterates a response body once)
BodyIter(t, c) ==
    /\ Sched(t)
    /\ pc[t] = "idle" /\ via[t] = "direct"
    /\ rs[c].made /\ rs[c].owner = t
    /\ ~rs[c].iterated
    /\ IF rs[c].closed
       THEN /\ res' = Fade(res, t, "stream_error", "none")
            /\ UNCHANGED rs
       ELSE /\ res' = Fade(res, t, "ok", "none")
            /\ rs' = [rs EXCEPT ![c].coro = "fresh", ![c].iter = "none",
                                ![c].iterated = TRUE]
    /\ running' = 0
    /\ UNCHANGED <<state, streamClosed, requestCount, idleSince, ourState,
                   theirState, keepAlive, bodyLeft, buffered, origin, poolVars,
                   pc, via, treq, now>>
    /\ OpBegin(t, "iter", c)
    /\ UNCHANGED <<reqStream, sock, lockVars>>

\* ResponseStream.__anext__ up to its first suspension
BodyNext(t, c) ==
    /\ Sched(t)
    /\ pc[t] = "idle" /\ via[t] = "direct"
    /\ rs[c].made /\ rs[c].owner = t
    /\ IF rs[c].closed
       THEN \* StreamError("Cannot read from closed stream")
            /\ res' = Fade(res, t, "stream_error", "none")
            /\ running' = 0
            /\ UNCHANGED <<state, streamClosed, idleSince, ourState, theirState,
                           bodyLeft, buffered, rs, pc>>
       ELSE IF rs[c].iter = "none" /\ rs[c].coro # "fresh"
       THEN \* RuntimeError: not initialised, or the coroutine was awaited before
            /\ res' = Fade(res, t, "runtime", "none")
            /\ running' = 0
            /\ UNCHANGED <<state, streamClosed, idleSince, ourState, theirState,
                           bodyLeft, buffered, rs, pc>>
       ELSE IF rs[c].iter = "none"
       THEN \* await self._iterator_coro: _receive_body_chunk
            IF theirState[c] = "SEND_BODY" /\ bodyLeft[c] = 0
            THEN Deliver(t, c, 0, 0)
            ELSE IF theirState[c] = "SEND_BODY" /\ buffered[c] > 0
            THEN Deliver(t, c, buffered[c], 0)
            ELSE \* h11.NEED_DATA: wait_for(stream.read)
                 /\ rs' = [rs EXCEPT ![c].coro = "running"]
                 /\ pc' = [pc EXCEPT ![t] = "body_read"]
                 /\ res' = Fade(res, t, "pending", "none")
                 /\ running' = 0
                 /\ UNCHANGED <<state, streamClosed, idleSince, ourState,
                                theirState, bodyLeft, buffered>>
       ELSE \* _iterator holds the first chunk: next() raises TypeError again
            /\ Release(c, ourState[c], theirState[c])
            /\ rs' = [rs EXCEPT ![c].notified = Notified(@)]
            /\ res' = Fade(res, t, "stream_error", "none")
            /\ running' = 0
            /\ UNCHANGED <<bodyLeft, buffered, pc>>
    /\ UNCHANGED <<requestCount, keepAlive, origin, poolVars, via, treq, now>>
    /\ OpBegin(t, "next", c)
    /\ UNCHANGED <<reqStream, sock, lockVars>>

\* _receive_body_chunk: the stream.read a pull waited for returns or raises
BodyRead(t, out, k) ==
    LET c == op[t].conn IN
    /\ Sched(t)
    /\ pc[t] = "body_read"
    /\ IF streamClosed[c] \/ out # "ok"
       THEN \* raised outside __anext__'s try: _response_closed is not called
            /\ res' = Fade(res, t, IF streamClosed[c] THEN "transport" ELSE out, "none")
            /\ rs' = [rs EXCEPT ![c].coro = "spent"]
            /\ pc' = [pc EXCEPT ![t] = "idle"]
            /\ running' = 0
            /\ UNCHANGED <<state, streamClosed, idleSince, ourState, theirState,
                           bodyLeft, buffered>>
       ELSE /\ k <= bodyLeft[c]
            /\ Deliver(t, c, k, k)
    /\ UNCHANGED <<requestCount, keepAlive, origin, poolVars, via, treq, now>>
    /\ OpStepIO(t, FALSE, 0, IF ~streamClosed[c] /\ out = "ok" THEN k ELSE 0)
    /\ UNCHANGED <<reqStream, sock, lockVars>>

\* ResponseStream.aclose
BodyAclose(t, c) ==
    /\ Sched(t)
    /\ pc[t] = "idle" /\ via[t] = "direct"
    /\ rs[c].made /\ rs[c].owner = t
    /\ res' = Fade(res, t, "ok", "none")
    /\ IF ~rs[c].closed
       THEN /\ rs' = [rs EXCEPT ![c].closed = TRUE, ![c].notified = Notified(@)]
            /\ Release(c, ourState[c], theirState[c])
       ELSE UNCHANGED <<rs, state, streamClosed, idleSince, ourState, theirState>>
    /\ running' = 0
    /\ UNCHANGED <<requestCount, keepAlive, bodyLeft, buffered, origin, poolVars,
                   pc, via, treq, now>>
    /\ OpBegin(t, "aclose", c)
    /\ UNCHANGED <<reqStream, sock, lockVars>>

\* ------------------------------------------------------------- RequestStream
\* a call on the caller's own RequestStream: nothing else changes
ReqCall(t, name, kind) ==
    /\ Sched(t)
    /\ pc[t] = "idle" /\ via[t] = "direct"
    /\ op' = Fade(op, t, [NoOp EXCEPT !.name = name], NoOp)
    /\ res' = Fade(res, t, kind, "none")
    /\ running' = 0
    /\ UNCHANGED <<connVars, poolVars, pc, via, treq, now, sock, lockVars>>

\* _calculate_actual_length: the size of a bytes or list input, -1 for an
\* async iterable
ActualLength(kind, size) == IF kind \in {"bytes", "list"} THEN size ELSE -1

\* RequestStream.__init__ accepts content_length cl (-1: None): it is not
\* negative and equals the actual length
LengthAccepted(kind, size, cl) ==
    cl = -1 \/ (cl >= 0 /\ ActualLength(kind, size) = cl)

\* RequestStream.__init__ for data of the given kind and size and the
\* content_length cl: ValueError, or the caller has a new stream
ReqCreate(t, kind, size, cl) ==
    /\ ReqCall(t, "req_init", IF LengthAccepted(kind, size, cl) THEN "ok" ELSE "value_error")
    /\ LET args == [kind |-> kind, size |-> size, cl |-> cl] IN
       reqStream' = IF LengthAccepted(kind, size, cl)
                    THEN [reqStream EXCEPT ![t] =
                             [NoReqStream EXCEPT !.kind = kind, !.size = size,
                                                 !.declared = cl, !.args = args]]
                    ELSE [reqStream EXCEPT ![t].args = args]

\* the chunks the iterators of r yield: bytes as one chunk, a list or an async
\* producer chunk by chunk, empty chunks left out
ChunksOf(r) == IF r.kind = "bytes" THEN (IF r.size > 0 THEN 1 ELSE 0) ELSE r.size

\* A mutant of _get_iterator: an iterator that exists is kept.
GetIteratorOnce(r) ==
    IF r.kind = "async" THEN r.pos ELSE IF r.iter >= 0 THEN r.iter ELSE 0

\* A mutant of _get_iterator: an async producer is started again.
GetIteratorFresh(r) == 0

\* _get_iterator: a new generator over a bytes or list input, the caller's
\* producer itself (wherever it has got to) for an async input
GetIterator(r) == IF r.kind = "async" THEN r.pos ELSE 0

\* RequestStream.__aiter__: StreamError on a closed stream, else _get_iterator
ReqIter(t) ==
    /\ ReqCall(t, "req_iter", IF reqStream[t].closed THEN "stream_error" ELSE "ok")
    /\ reqStream' = IF reqStream[t].closed THEN reqStream
                     ELSE [reqStream EXCEPT ![t].iter = GetIterator(reqStream[t]),
                                            ![t].yielded = 0]

\* the iteration under way has run to its end: it is one of the passes
Passed(r) == IF r.yielded >= 0 /\ Len(r.passes) < MaxPasses
             THEN Append(r.passes, r.yielded) ELSE r.passes

\* RequestStream.__anext__: StreamError on a closed stream, RuntimeError
\* without an iterator, else the next chunk or StopAsyncIteration
ReqNext(t) ==
    LET r == reqStream[t] IN
    /\ ReqCall(t, "req_next",
               IF r.closed THEN "stream_error"
               ELSE IF r.iter = -1 THEN "runtime"
               ELSE IF r.iter < ChunksOf(r) THEN "chunk"
               ELSE "stop")
    /\ reqStream' =
           IF r.closed \/ r.iter = -1 THEN reqStream
           ELSE IF r.iter < ChunksOf(r)
           THEN [reqStream EXCEPT ![t].iter = @ + 1,
                                  ![t].pos = IF r.kind = "async" THEN @ + 1 ELSE @,
                                  ![t].yielded = IF @ >= 0 THEN @ + 1 ELSE @]
           ELSE [reqStream EXCEPT ![t].passes = Passed(r), ![t].yielded = -1]

\* A mutant of RequestStream.aclose: closing a closed stream opens it again.
ReqClosedToggled(r) == [r EXCEPT !.closed = ~r.closed, !.iter = -1, !.yielded = -1]

\* RequestStream.aclose: _closed = True, _iterator = None
ReqClosed(r) == [r EXCEPT !.closed = TRUE, !.iter = -1, !.yielded = -1]

ReqAclose(t) ==
    /\ ReqCall(t, "req_aclose", "ok")
    /\ reqStream' = [reqStream EXCEPT ![t] = ReqClosed(@)]

\* ------------------------------------------------------------ ConnectionPool
\* has_expired(timeout): only an IDLE connection with _idle_since set expires
HasExpired(c) ==
    /\ state[c] = "idle"
    /\ idleSince[c] # -1
    /\ now - idleSince[c] > KeepAliveTimeout

InMap(m, c) == \E o \in Origins : \E i \in 1..Len(m[o]) : m[o][i] = c

\* _get_total_connections
TotalConnections(m) ==
    LET RECURSIVE Sum(_)
        Sum(k) == IF k = 0 THEN 0 ELSE Len(m[k]) + Sum(k - 1)
    IN Sum(NumOrigins)

\* A mutant of get_connection's scan: expired connections stay in the list.
AllKept(q) == q

Unexpired(q) == SelectSeq(q, LAMBDA c : ~HasExpired(c))
FirstIdle(q) == LET i == CHOOSE i \in 1..Len(q) :
                         /\ state[q[i]] = "idle"
                         /\ \A j \in 1..(i - 1) : state[q[j]] # "idle"
                IN q[i]
HasIdle(q) == \E i \in 1..Len(q) : state[q[i]] = "idle"
Without(q, c) == SelectSeq(q, LAMBDA d : d # c)
FreeIds == {c \in ConnIds : state[c] = "none"}

\* A mutant of the total-limit test: the pool is never full.
TotalNeverFull(m) == FALSE

\* get_connection's test of the total limit
TotalFull(m) == TotalConnections(m) >= MaxTotal

\* a caller's request() is over: its next call is a fresh one
EndCall(t, callName, kind) ==
    /\ res' = Fade(res, t, kind, "none")
    /\ pc' = [pc EXCEPT ![t] = After(t, callName)]
    /\ running' = RunAfter(t, callName)

\* ConnectionPool.start
PoolStart(t) ==
    /\ Sched(t)
    /\ pc[t] = "idle" /\ via[t] = "direct"
    /\ reaper = "none"
    /\ reaper' = "running"
    /\ running' = 0
    /\ op' = Fade(op, t, [NoOp EXCEPT !.name = "start"], NoOp)
    /\ res' = Fade(res, t, "ok", "none")
    /\ UNCHANGED <<connVars, poolMap, poolClosed, poolLock, holder, pc,
                   via, treq, now>>
    /\ UNCHANGED sockets
    /\ UNCHANGED <<reqStream, sock, lockVars>>

\* get_connection up to the pool lock: the _closed test
GetEnter(t, o, mode) ==
    /\ op' = Fade(op, t, [NoOp EXCEPT !.name = "get", !.org = o], NoOp)
    /\ IF poolClosed
       THEN /\ res' = Fade(res, t, "pool_closed", "none")
            /\ running' = 0
            /\ UNCHANGED <<pc, via>>
       ELSE /\ res' = Fade(res, t, "pending", "none")
            /\ pc' = [pc EXCEPT ![t] = "gc_lock"]
            /\ via' = [via EXCEPT ![t] = mode]
            /\ running' = IF poolLock = 0 THEN t ELSE 0

\* ConnectionPool.get_connection, called by a user of the pool (who leases one
\* connection at a time)
GetConnection(t, o) ==
    /\ Sched(t)
    /\ pc[t] = "idle" /\ via[t] = "direct"
    /\ \A c \in ConnIds : t \notin holder[c]
    /\ GetEnter(t, o, "direct")
    /\ UNCHANGED <<connVars, poolMap, poolClosed, poolLock, reaper, holder, treq, now>>
    /\ UNCHANGED sockets
    /\ UNCHANGED <<reqStream, sock, lockVars>>

\* PooledHTTPClient.request up to the pool lock: the pool is started (start is
\* idempotent, so _started adds nothing to the state), then urlparse reads
\* request.url, which raises AttributeError for the 4-tuple a Request holds
\* and succeeds for a request object whose url is a string
ClientRequest(t, o, strUrl) ==
    /\ Sched(t)
    /\ pc[t] = "idle" /\ via[t] = "direct"
    /\ reaper' = IF reaper = "none" THEN "running" ELSE reaper
    /\ IF strUrl
       THEN GetEnter(t, o, "client")
       ELSE /\ op' = Fade(op, t, [NoOp EXCEPT !.name = "request", !.org = o], NoOp)
            /\ res' = Fade(res, t, "attribute_error", "none")
            /\ running' = 0
            /\ UNCHANGED <<pc, via>>
    /\ UNCHANGED <<connVars, poolMap, poolClosed, poolLock, holder, treq, now>>
    /\ UNCHANGED sockets
    /\ UNCHANGED <<reqStream, sock, lockVars>>

\* get_connection raises: request() has no connection to return
GetFail(t, kind) ==
    /\ res' = Fade(res, t, kind, "none")
    /\ pc' = [pc EXCEPT ![t] = "idle"]
    /\ via' = [via EXCEPT ![t] = "direct"]
    /\ running' = 0
    /\ op' = Fade(op, t, op[t], NoOp)

\* get_connection under the lock: drop the expired entries of the origin's
\* list, return its first IDLE entry, else check the limits and connect
GetConnLocked(t) ==
    LET o == op[t].org
        kept == Unexpired(poolMap[o])
        m1 == [poolMap EXCEPT ![o] = kept]
        swept == [p \in Origins |-> Unexpired(m1[p])]
        full == TotalFull(m1)
    IN
    /\ Sched(t)
    /\ pc[t] = "gc_lock"
    /\ poolLock = 0
    /\ UNCHANGED <<requestCount, idleSince, ourState, theirState, keepAlive,
                   bodyLeft, buffered, origin, poolClosed, reaper, treq, now>>
    /\ IF HasIdle(kept)
       THEN /\ poolMap' = m1
            /\ holder' = [holder EXCEPT ![FirstIdle(kept)] = @ \cup {t}]
            /\ EndCall(t, "get", "ok")
            /\ UNCHANGED <<state, streamClosed, poolLock, via, rs>>
            /\ op' = Fade(op, t, [op[t] EXCEPT !.conn = FirstIdle(kept),
                                !.post = SnapAfter(FirstIdle(kept))], NoOp)
       ELSE IF Len(kept) >= MaxPerHost
       THEN /\ poolMap' = m1
            /\ GetFail(t, "capacity")
            /\ UNCHANGED <<state, streamClosed, poolLock, holder, rs>>
       ELSE \* _cleanup_expired_connections when the total limit is reached
            /\ poolMap' = IF full THEN swept ELSE m1
            /\ state' = [c \in ConnIds |->
                   IF full /\ InMap(m1, c) /\ HasExpired(c) THEN "closed"
                   ELSE state[c]]
            /\ streamClosed' = [c \in ConnIds |->
                   streamClosed[c] \/ (full /\ InMap(m1, c) /\ HasExpired(c))]
            /\ IF full /\ TotalFull(swept)
               THEN GetFail(t, "capacity") /\ UNCHANGED poolLock
               ELSE \* await self._backend.connect_tcp(host, port)
                    /\ poolLock' = t
                    /\ pc' = [pc EXCEPT ![t] = "gc_connect"]
                    /\ running' = 0
                    /\ res' = Fade(res, t, res[t], "none")
                    /\ op' = Fade(op, t, op[t], NoOp)
                    /\ UNCHANGED via
            /\ UNCHANGED <<holder, rs>>
    /\ UNCHANGED sockets
    /\ UNCHANGED <<reqStream, sock, lockVars>>

\* get_connection: connect_tcp returns a stream (the connection is built and
\* appended to the origin's list) or raises
GetConnConnected(t, ok) ==
    LET o == op[t].org
        c == CHOOSE c \in FreeIds : \A d \in FreeIds : c <= d
    IN
    /\ Sched(t)
    /\ pc[t] = "gc_connect"
    /\ ok => sockets > 0 /\ FreeIds # {}
    /\ sockets' = IF ok THEN sockets - 1 ELSE sockets
    /\ poolLock' = 0
    /\ UNCHANGED <<requestCount, idleSince, ourState, theirState, keepAlive,
                   bodyLeft, buffered, poolClosed, reaper, treq, now>>
    /\ IF ok
       THEN /\ state' = [state EXCEPT ![c] = "new"]
            /\ origin' = [origin EXCEPT ![c] = o]
            /\ poolMap' = [poolMap EXCEPT ![o] = Append(@, c)]
            /\ holder' = [holder EXCEPT ![c] = {t}]
            /\ EndCall(t, "get", "ok")
            /\ UNCHANGED <<via, streamClosed, rs>>
            /\ op' = Fade(op, t, [op[t] EXCEPT !.conn = c, !.post = SnapAfter(c)], NoOp)
       ELSE /\ GetFail(t, "connect_failed")
            /\ UNCHANGED <<state, origin, poolMap, holder, streamClosed, rs>>
    /\ UNCHANGED <<reqStream, sock, lockVars>>

\* return_connection up to the pool lock: the _closed test
ReturnConnection(t, c) ==
    /\ Sched(t)
    /\ \/ pc[t] = "idle" /\ via[t] = "direct" /\ t \in holder[c]
       \/ pc[t] = "cl_return" /\ op[t].conn = c
    /\ op' = IF via[t] = "client" THEN op
             ELSE Fade(op, t, [NoOp EXCEPT !.name = "return", !.conn = c,
                                                 !.org = origin[c], !.pre = Snap(c)], NoOp)
    /\ res' = IF via[t] = "client" THEN res
              ELSE Fade(res, t, IF poolClosed THEN "ok" ELSE "pending", "none")
    /\ IF poolClosed
       THEN /\ holder' = [holder EXCEPT ![c] = @ \ {t}]
            /\ pc' = [pc EXCEPT ![t] = "idle"]
            /\ via' = [via EXCEPT ![t] = "direct"]
            /\ running' = 0
       ELSE /\ pc' = [pc EXCEPT ![t] = "rc_lock"]
            /\ running' = IF poolLock = 0 THEN t ELSE 0
            /\ UNCHANGED <<holder, via>>
    /\ UNCHANGED <<connVars, poolMap, poolClosed, poolLock, reaper, treq, now>>
    /\ UNCHANGED sockets
    /\ UNCHANGED <<reqStream, sock, lockVars>>

\* return_connection under the lock: a connection that is closed or not IDLE
\* is removed from its origin's list; an IDLE one is left where it is
ReturnLocked(t) ==
    LET c == op[t].conn
        o == origin[c]
    IN
    /\ Sched(t)
    /\ pc[t] = "rc_lock"
    /\ poolLock = 0
    /\ poolMap' = IF state[c] = "closed" \/ state[c] # "idle"
                  THEN [poolMap EXCEPT ![o] = Without(@, c)]
                  ELSE poolMap
    /\ holder' = [holder EXCEPT ![c] = @ \ {t}]
    /\ pc' = [pc EXCEPT ![t] = "idle"]
    /\ res' = IF via[t] = "client" THEN res ELSE Fade(res, t, "ok", "none")
    /\ via' = [via EXCEPT ![t] = "direct"]
    /\ running' = 0
    /\ op' = Fade(op, t, op[t], NoOp)
    /\ UNCHANGED <<connVars, poolClosed, poolLock, reaper, treq, now>>
    /\ UNCHANGED sockets
    /\ UNCHANGED <<reqStream, sock, lockVars>>

\* _cleanup_loop after its sleep: _cleanup_expired_connections under the lock
ReaperTick ==
    /\ running = 0
    /\ reaper = "running"
    /\ poolLock = 0
    /\ poolMap' = [o \in Origins |-> Unexpired(poolMap[o])]
    /\ state' = [c \in ConnIds |->
           IF InMap(poolMap, c) /\ HasExpired(c) THEN "closed" ELSE state[c]]
    /\ streamClosed' = [c \in ConnIds |->
           streamClosed[c] \/ (InMap(poolMap, c) /\ HasExpired(c))]
    /\ FadeAll
    /\ UNCHANGED <<requestCount, idleSince, ourState, theirState, keepAlive,
                   bodyLeft, buffered, rs, origin, poolClosed, poolLock, reaper,
                   holder, pc, via, treq, running, now>>
    /\ UNCHANGED sockets
    /\ UNCHANGED <<reqStream, sock, lockVars>>

\* ConnectionPool.stop up to the pool lock: _closed is set, the cleanup task is
\* cancelled and awaited
PoolStop(t) ==
    /\ Sched(t)
    /\ pc[t] = "idle" /\ via[t] = "direct"
    /\ ~poolClosed
    /\ poolClosed' = TRUE
    /\ reaper' = IF reaper = "running" THEN "cancelled" ELSE reaper
    /\ op' = Fade(op, t, [NoOp EXCEPT !.name = "stop"], NoOp)
    /\ res' = Fade(res, t, "pending", "none")
    /\ pc' = [pc EXCEPT ![t] = "stop_lock"]
    /\ running' = IF reaper # "running" /\ poolLock = 0 THEN t ELSE 0
    /\ UNCHANGED <<connVars, poolMap, poolLock, holder, via, treq, now>>
    /\ UNCHANGED sockets
    /\ UNCHANGED <<reqStream, sock, lockVars>>

\* ConnectionPool.stop under the lock: every connection in the map is closed
\* and the map is cleared
StopLocked(t) ==
    /\ Sched(t)
    /\ pc[t] = "stop_lock"
    /\ poolLock = 0
    /\ state' = [c \in ConnIds |-> IF InMap(poolMap, c) THEN "closed" ELSE state[c]]
    /\ streamClosed' = [c \in ConnIds |-> streamClosed[c] \/ InMap(poolMap, c)]
    /\ poolMap' = [o \in Origins |-> <<>>]
    /\ pc' = [pc EXCEPT ![t] = "idle"]
    /\ res' = Fade(res, t, "ok", "none")
    /\ running' = 0
    /\ UNCHANGED <<requestCount, idleSince, ourState, theirState, keepAlive,
                   bodyLeft, buffered, rs, origin, poolClosed, poolLock, reaper,
                   holder, via, treq, now>>
    /\ op' = Fade(op, t, op[t], NoOp)
    /\ UNCHANGED sockets
    /\ UNCHANGED <<reqStream, sock, lockVars>>

\* the event loop's clock advances while every task is suspended; it is read
\* only as the age of an IDLE connection, and stands still without one
Tick ==
    /\ running = 0
    /\ \E c \in ConnIds : state[c] = "idle"
    /\ now < MaxTime
    /\ now' = now + 1
    /\ FadeAll
    /\ UNCHANGED <<connVars, poolVars, pc, via, treq, running>>
    /\ UNCHANGED <<reqStream, sock, lockVars>>

\* ------------------------------------------------------- inputs and outcomes
Requests == [close : BOOLEAN, body : 0..1, framed : {TRUE}]
\* response heads: Content-Length alone, or Transfer-Encoding: chunked with or
\* without a Content-Length
LengthHeads == [te : {FALSE}, cl : 0..MaxBody]
ChunkedHeads == [te : {TRUE}, cl : -1..MaxBody]
WriteOutcomes == {"ok", "transport", "timeout"}
ReadOutcomes == {"ok", "protocol", "transport", "timeout"}

\* the steps of an exchange and of its response body, for the requests rqs,
\* the transport outcomes wouts (writes) and routs (reads) and the response
\* heads hs
ExchangeSteps(ts, rqs, wouts, routs, hs) ==
    \E t \in ts :
        \/ \E c \in ConnIds, rq \in rqs : HRStart(t, c, rq)
        \/ \E out \in wouts : HRSendHead(t, out)
        \/ \E out \in wouts : HRSendBody(t, out)
        \/ HRSendEOM(t)
        \/ \E out \in routs, cl \in BOOLEAN, n \in 0..MaxBody, b \in 0..MaxBody,
                 h \in hs :
               b <= n /\ H11Frames(h, n) /\ HRRecvHead(t, out, cl, n, b, h)
        \/ \E c \in ConnIds : BodyIter(t, c)
        \/ \E c \in ConnIds : BodyNext(t, c)
        \/ \E out \in routs, k \in 1..MaxBody : BodyRead(t, out, k)
        \/ \E c \in ConnIds : BodyAclose(t, c)

\* the steps of one connection: exchanges, bodies, close() and cancellation
ConnNext ==
    \/ ExchangeSteps(Tasks, Requests, WriteOutcomes, ReadOutcomes, LengthHeads)
    \/ \E t \in Tasks, c \in ConnIds : ConnClose(t, c)
    \/ \E t \in Tasks : HRCancel(t)

\* -------------------------------------------------------- EpollNetworkStream
\* a stream just built by connect_tcp: open, nothing received, no read made.
\* buf: bytes in the socket's receive buffer; eof: the peer has closed; phase:
\* "none", "wait" (the read is suspended in _wait_for_read), "done" (it
\* returned data bytes), "error"
NoSock == [closed |-> FALSE, buf |-> 0, eof |-> FALSE,
           phase |-> "none", max |-> 0, data |-> 0]

Min(a, b) == IF a <= b THEN a ELSE b

\* the loop of read from where it stands to its return or its next suspension:
\* `while len(data) < max_bytes`, recv(max_bytes - len(data)) takes what the
\* buffer holds; b"" (the peer closed) breaks the loop; BlockingIOError
\* (nothing buffered, peer open) leads to _wait_for_read
Recv(s) ==
    LET n == Min(s.buf, s.max - s.data) IN
    [s EXCEPT !.data = @ + n, !.buf = @ - n,
              !.phase = IF s.data + n >= s.max \/ (s.buf - n = 0 /\ s.eof)
                        THEN "done" ELSE "wait"]

\* EpollNetworkStream.read(m) up to its return or its first suspension
EpollRead(m) ==
    /\ sock.phase # "wait"
    /\ sock' = IF sock.closed
               THEN [sock EXCEPT !.phase = "error", !.max = m, !.data = 0]
               ELSE Recv([sock EXCEPT !.max = m, !.data = 0])
    /\ UNCHANGED <<connVars, poolVars, taskVars, now, lockVars>>

\* _read_ready: the socket is readable (bytes or end of file), the future of
\* the suspended read is resolved and the loop goes on
EpollReadReady ==
    /\ sock.phase = "wait"
    /\ ~sock.closed
    /\ sock.buf > 0 \/ sock.eof
    /\ sock' = Recv(sock)
    /\ UNCHANGED <<connVars, poolVars, taskVars, now, lockVars>>

\* the peer sends k bytes
PeerSend(k) ==
    /\ ~sock.eof
    /\ sock.buf + k <= SockBuf
    /\ sock' = [sock EXCEPT !.buf = @ + k]
    /\ UNCHANGED <<connVars, poolVars, taskVars, now, lockVars>>

\* the peer closes the connection
PeerClose ==
    /\ ~sock.eof
    /\ sock' = [sock EXCEPT !.eof = TRUE]
    /\ UNCHANGED <<connVars, poolVars, taskVars, now, lockVars>>

\* EpollNetworkStream.aclose: the reader is removed, the socket closed; a
\* suspended read is not woken
EpollAclose ==
    /\ ~sock.closed
    /\ sock' = [sock EXCEPT !.closed = TRUE]
    /\ UNCHANGED <<connVars, poolVars, taskVars, now, lockVars>>

ReadNext ==
    \/ \E m \in 1..MaxRead : EpollRead(m)
    \/ EpollReadReady
    \/ \E k \in 1..SockBuf : PeerSend(k)
    \/ PeerClose
    \/ EpollAclose

\* --------------------------------------------------------------- the locks
\* What an operation does with the locks, as the list of its steps: it takes
\* ("acq") or releases ("rel") the pool lock (l = 0) or the state lock of
\* connection l, or awaits something that ends by itself ("io": a connect, a
\* stream close, a read or write under wait_for, the reaper's sleep); start
\* creates the cleanup task ("spawn"), stop cancels and awaits it ("cancel").
Acq(l) == [k |-> "acq", l |-> l]
Rel(l) == [k |-> "rel", l |-> l]
Io == [k |-> "io", l |-> 0]
Spawn == [k |-> "spawn", l |-> 0]
Cancel == [k |-> "cancel", l |-> 0]

\* HTTP11Connection.close: under the state lock, the stream is closed unless
\* the connection is CLOSED already
CloseProgs(c) == {<<Acq(c), Io, Rel(c)>>, <<Acq(c), Rel(c)>>}

\* A mutant of _release_connection: it hands the connection back to the pool,
\* under the pool lock, before it lets go of the state lock.
ReleaseIntoPool(c) == {<<Acq(c), Acq(0), Rel(0), Rel(c)>>}

\* _release_connection: under the state lock, IDLE, or CLOSED and the stream
\* closed
ReleaseProgs(c) == {<<Acq(c), Rel(c)>>, <<Acq(c), Io, Rel(c)>>}

\* handle_request: over the cap, close(); else _acquire_connection, the
\* writes and the read; in the except clauses the state lock once more and,
\* outside it, the close of the stream
HandleProgs(c) ==
    CloseProgs(c) \cup
    {<<Acq(c), Rel(c), Io, Io>>,
     <<Acq(c), Rel(c), Acq(c), Rel(c), Io>>,
     <<Acq(c), Rel(c), Io, Acq(c), Rel(c), Io>>}

\* ResponseStream.__anext__ and aclose: a read of the stream or none, then
\* _response_closed (or the read raises and nothing is released)
BodyProgs(c) ==
    ReleaseProgs(c) \cup {<<Io>> \o q : q \in ReleaseProgs(c)} \cup {<<Io>>}

\* connection.close() for each of the connections cs, one after the other
RECURSIVE Closes(_)
Closes(cs) ==
    IF cs = <<>> THEN <<>> ELSE <<Acq(Head(cs)), Io, Rel(Head(cs))>> \o Closes(Tail(cs))

\* the connections a sweep finds to close, in the order of the map
Sweeps == {<<>>} \cup {<<c>> : c \in ConnIds} \cup {<<1, 2>>}

\* get_connection: all of it under the pool lock: the scan; at the total
\* limit _cleanup_expired_connections; connect_tcp
GetProgs ==
    {<<Acq(0), Rel(0)>>} \cup
    {<<Acq(0)>> \o Closes(cs) \o io \o <<Rel(0)>> : cs \in Sweeps, io \in {<<>>, <<Io>>}}

\* return_connection
ReturnProgs == {<<Acq(0), Rel(0)>>}

\* stop: the cleanup task is cancelled and awaited, then every connection of
\* the map is closed under the pool lock
StopProgs == {<<Cancel, Acq(0)>> \o Closes(cs) \o <<Rel(0)>> : cs \in Sweeps}

\* one cycle of _cleanup_loop: the sleep, then the sweep under the pool lock
ReaperProgs == {<<Io, Acq(0)>> \o Closes(cs) \o <<Rel(0)>> : cs \in Sweeps}

\* the operations a caller starts
CallerProgs ==
    {<<Spawn>>} \cup GetProgs \cup ReturnProgs \cup StopProgs \cup
    UNION {HandleProgs(c) \cup BodyProgs(c) : c \in ConnIds}

LockOwner(l) == IF l = 0 THEN poolLock ELSE stateLock[l]

\* the step actor a is at
At(a, kind) == prog[a] # <<>> /\ Head(prog[a]).k = kind

LockFrame == UNCHANGED <<connVars, poolMap, poolClosed, holder, sockets, taskVars,
                         now, sock>>

\* a caller that is in no operation starts one
LockCall(a, p) ==
    /\ prog[a] = <<>>
    /\ prog' = [prog EXCEPT ![a] = p]
    /\ UNCHANGED <<poolLock, reaper, stateLock>>
    /\ LockFrame

\* _cleanup_loop goes round while the task is not cancelled
ReaperCycle(p) ==
    /\ reaper = "running"
    /\ prog[Reaper] = <<>>
    /\ prog' = [prog EXCEPT ![Reaper] = p]
    /\ UNCHANGED <<poolLock, reaper, stateLock>>
    /\ LockFrame

\* `async with lock:` a free lock is taken, a held one is waited for
LockAcquire(a) ==
    /\ At(a, "acq")
    /\ LET l == Head(prog[a]).l IN
       /\ LockOwner(l) = 0
       /\ IF l = 0
          THEN poolLock' = a /\ UNCHANGED stateLock
          ELSE stateLock' = [stateLock EXCEPT ![l] = a] /\ UNCHANGED poolLock
    /\ prog' = [prog EXCEPT ![a] = Tail(@)]
    /\ UNCHANGED reaper
    /\ LockFrame

\* the end of the `async with` block
LockRelease(a) ==
    /\ At(a, "rel")
    /\ LET l == Head(prog[a]).l IN
       IF l = 0
       THEN poolLock' = 0 /\ UNCHANGED stateLock
       ELSE stateLock' = [stateLock EXCEPT ![l] = 0] /\ UNCHANGED poolLock
    /\ prog' = [prog EXCEPT ![a] = Tail(@)]
    /\ UNCHANGED reaper
    /\ LockFrame

\* what the actor awaits is over
LockAwait(a) ==
    /\ At(a, "io")
    /\ prog' = [prog EXCEPT ![a] = Tail(@)]
    /\ UNCHANGED <<poolLock, reaper, stateLock>>
    /\ LockFrame

\* ConnectionPool.start
LockSpawn(a) ==
    /\ At(a, "spawn")
    /\ reaper' = IF reaper = "none" THEN "running" ELSE reaper
    /\ prog' = [prog EXCEPT ![a] = Tail(@)]
    /\ UNCHANGED <<poolLock, stateLock>>
    /\ LockFrame

\* stop cancels the cleanup task and awaits it: CancelledError is raised where
\* the task is suspended, the `async with` blocks it is in release their
\* locks, and the loop ends
LockCancel(a) ==
    /\ At(a, "cancel")
    /\ reaper' = IF reaper = "running" THEN "cancelled" ELSE reaper
    /\ prog' = [prog EXCEPT ![a] = Tail(@), ![Reaper] = <<>>]
    /\ poolLock' = IF poolLock = Reaper THEN 0 ELSE poolLock
    /\ stateLock' = [c \in ConnIds |-> IF stateLock[c] = Reaper THEN 0 ELSE stateLock[c]]
    /\ LockFrame

LockNext ==
    \/ \E a \in Tasks, p \in CallerProgs : LockCall(a, p)
    \/ \E p \in ReaperProgs : ReaperCycle(p)
    \/ \E a \in Actors : LockAcquire(a)
    \/ \E a \in Actors : LockRelease(a)
    \/ \E a \in Actors : LockAwait(a)
    \/ \E a \in Tasks : LockSpawn(a)
    \/ \E a \in Tasks : LockCancel(a)

\* asyncio.Lock wakes its waiters in the order they came, so a task that keeps
\* waiting for a lock that is released again and again gets it; a task that
\* can run runs; connects, closes, reads and writes end
LockFair ==
    \A a \in Actors :
        /\ SF_vars(LockAcquire(a))
        /\ WF_vars(LockRelease(a))
        /\ WF_vars(LockAwait(a))
        /\ WF_vars(LockSpawn(a))
        /\ WF_vars(LockCancel(a))

\* ---------------------------------------------------------------- initial
InitTasks ==
    /\ pc = [t \in Tasks |-> "idle"]
    /\ op = [t \in Tasks |-> NoOp]
    /\ res = [t \in Tasks |-> "none"]
    /\ via = [t \in Tasks |-> "direct"]
    /\ treq = [t \in Tasks |-> NoReq]
    /\ reqStream = [t \in Tasks |-> NoReqStream]
    /\ running = 0
    /\ now = 0
    /\ sock = NoSock
    /\ stateLock = [c \in ConnIds |-> 0]
    /\ prog = [a \in Actors |-> <<>>]

InitPool(k) ==
    /\ sockets = k
    /\ poolMap = [o \in Origins |-> <<>>]
    /\ poolClosed = FALSE
    /\ poolLock = 0
    /\ reaper = "none"
    /\ holder = [c \in ConnIds |-> {}]

\* HTTP11Connection.__init__ for the constructed connections cs
InitConns(cs) ==
    /\ state = [c \in ConnIds |-> IF c \in cs THEN "new" ELSE "none"]
    /\ streamClosed = [c \in ConnIds |-> FALSE]
    /\ requestCount = [c \in ConnIds |-> 0]
    /\ idleSince = [c \in ConnIds |-> -1]
    /\ ourState = [c \in ConnIds |-> "IDLE"]
    /\ theirState = [c \in ConnIds |-> "IDLE"]
    /\ keepAlive = [c \in ConnIds |-> TRUE]
    /\ bodyLeft = [c \in ConnIds |-> 0]
    /\ buffered = [c \in ConnIds |-> 0]
    /\ rs = [c \in ConnIds |-> NoStream]
    /\ origin = [c \in ConnIds |-> 0]

\* one connection built directly over a stream, shared by the callers
InitConn == InitConns({1}) /\ InitPool(0) /\ InitTasks

SpecConn == InitConn /\ [][ConnNext]_vars

\* the steps every use of the pool shares, taken by the callers ts
PoolSteps(ts) ==
    \/ \E t \in ts :
        \/ GetConnLocked(t)
        \/ \E ok \in BOOLEAN : GetConnConnected(t, ok)
        \/ \E c \in ConnIds : ReturnConnection(t, c)
        \/ ReturnLocked(t)
        \/ PoolStop(t)
        \/ StopLocked(t)
    \/ ReaperTick
    \/ Tick

\* under the pool the transport fails in one way per direction
PoolRequests == {[close |-> FALSE, body |-> 0, framed |-> TRUE],
                 [close |-> TRUE, body |-> 1, framed |-> TRUE]}
PoolExchange(ts) ==
    ExchangeSteps(ts, PoolRequests, {"ok", "transport"}, {"ok", "protocol"}, LengthHeads)

\* the callers ts of the ConnectionPool methods, asking for the origins os
PoolNext(ts, os) ==
    \/ PoolSteps(ts)
    \/ PoolExchange(ts)
    \/ \E t \in ts :
        \/ PoolStart(t)
        \/ \E o \in os : GetConnection(t, o)

\* callers that lease and return connections of any origin and run exchanges
\* on them, over a transport that does not fail
LeaseNext ==
    \/ \E t \in Tasks :
        \/ \E o \in Origins : GetConnection(t, o)
        \/ GetConnLocked(t)
        \/ \E ok \in BOOLEAN : GetConnConnected(t, ok)
        \/ \E c \in ConnIds : ReturnConnection(t, c)
        \/ ReturnLocked(t)
    \/ Tick
    \/ ExchangeSteps(Tasks, PoolRequests, {"ok"}, {"ok"}, LengthHeads)

\* one caller runs exchanges on its connection and closes the connection,
\* the response bodies and its request stream, any number of times
CloseNext ==
    \/ PoolExchange({1})
    \/ \E c \in ConnIds : ConnClose(1, c)
    \/ ReqIter(1) \/ ReqNext(1) \/ ReqAclose(1)

SpecClose == InitConn /\ [][CloseNext]_vars

\* one caller runs exchanges whose requests may lack a framing header and whose
\* responses may be chunked, and reads the bodies
AnyRequests == [close : BOOLEAN, body : 0..1, framed : BOOLEAN]
FramingNext ==
    ExchangeSteps({1}, AnyRequests, WriteOutcomes, ReadOutcomes,
                  LengthHeads \cup ChunkedHeads)

SpecFraming == InitConn /\ [][FramingNext]_vars

\* one caller builds request streams of every kind, iterates, pulls and closes
RequestLengths == -2..(ReqChunks + 1)
StreamNext ==
    \/ \E kind \in {"bytes", "list", "async"}, size \in 0..ReqChunks,
          cl \in RequestLengths : ReqCreate(1, kind, size, cl)
    \/ ReqIter(1) \/ ReqNext(1) \/ ReqAclose(1)

SpecStream == InitConn /\ [][StreamNext]_vars

\* one read at a time on a stream whose peer sends, pauses and closes as it
\* likes; the event loop runs the reader callback of a readable socket
SpecRead == InitConn /\ [][ReadNext]_vars /\ WF_vars(EpollReadReady)

\* one caller of PooledHTTPClient.request
ClientNext ==
    \/ PoolSteps({1})
    \/ PoolExchange({1})
    \/ \E o \in Origins, strUrl \in BOOLEAN : ClientRequest(1, o, strUrl)

\* an empty pool over a backend that accepts k connections; every connection
\* is created by get_connection
InitEmpty(k) == InitConns({}) /\ InitPool(k) /\ InitTasks

\* two callers of the pool contend for the first origin and share the one
\* connection the backend accepts
SpecPool == InitEmpty(1) /\ [][PoolNext(Tasks, {1})]_vars

\* two callers lease connections of every origin from a pool whose backend
\* accepts one connection
SpecLease == InitEmpty(1) /\ [][LeaseNext]_vars

\* one caller of the client, as many connections as there are ids
SpecClient == InitEmpty(MaxConns) /\ [][ClientNext]_vars

\* a pool call that waits for the pool lock or for connect_tcp goes on
PoolContinue(t) ==
    \/ GetConnLocked(t)
    \/ \E ok \in BOOLEAN : GetConnConnected(t, ok)
    \/ ReturnLocked(t)
    \/ StopLocked(t)

\* the callers and the cleanup task, each through the lock steps of its
\* operations
SpecLocks == InitEmpty(0) /\ [][LockNext]_vars /\ LockFair

\* one caller of the pool and the cleanup task: _cleanup_loop sleeps
\* cleanup_interval and queues for the pool lock, which asyncio.Lock hands out
\* in arrival order, so that its cycle runs again and again and a call that
\* waits for the lock gets it; connect_tcp returns or raises
SpecReap ==
    /\ InitEmpty(1)
    /\ [][PoolNext({1}, {1})]_vars
    /\ SF_vars(ReaperTick)
    /\ WF_vars(PoolContinue(1))

\* ----------------------------------------------------------------- claims
Done(t) == pc[t] \notin Suspended
InFlight(c) == {t \in Tasks : pc[t] \in HRPhases /\ op[t].conn = c}
TransportFailures == {"transport", "timeout", "protocol"}

\* C1 (as stated): at most one exchange is in flight on a connection, and a
\* handle_request that starts while the connection is ACTIVE is rejected with
\* ConnectionError('Connection is busy') and writes nothing to the stream.
C1_BusyOnly ==
    /\ \A c \in ConnIds : Cardinality(InFlight(c)) <= 1
    /\ \A t \in Tasks :
           op[t].name = "hr" /\ op[t].pre.st = "active"
               => res[t] = "busy" /\ ~op[t].wrote

\* C1 (amended): at most one exchange is in flight on a connection, and a
\* handle_request that starts while the connection is ACTIVE is rejected with a
\* ConnectionError and writes nothing to the stream; the error is 'Connection
\* is busy' unless the call takes request_count above max_requests, which the
\* cap check rejects first ('Connection exceeded max requests').
C1_BusyOrCap ==
    /\ \A c \in ConnIds : Cardinality(InFlight(c)) <= 1
    /\ \A t \in Tasks :
           op[t].name = "hr" /\ op[t].pre.st = "active"
               => /\ res[t] \in {"busy", "exceeded"}
                  /\ res[t] = "exceeded" => requestCount[op[t].conn] > MaxRequests
                  /\ ~op[t].wrote

\* a second handle_request was refused as busy while another caller's exchange
\* was between its acquire and its response head
C1_Witness ==
    \E t \in Tasks, u \in Tasks :
        /\ t # u
        /\ op[t].name = "hr" /\ op[t].pre.st = "active" /\ res[t] = "busy"
        /\ op[u].name = "hr" /\ op[u].conn = op[t].conn /\ pc[u] \in HRPhases

\* connections the pool created
Pooled == {c \in ConnIds : state[c] # "none" /\ origin[c] # 0}
NonClosed(o) == {c \in Pooled : origin[c] = o /\ state[c] # "closed"}

\* C2: no connection is held by two callers at once: a connection that
\* get_connection has returned to a caller is returned to no other caller
\* before the first has given it back with return_connection.
C2_ExclusiveLease ==
    \A c \in ConnIds : Cardinality(holder[c]) <= 1

\* C3: the connections the pool created for an origin that are not CLOSED
\* number at most max_connections_per_host, and those of all origins together
\* at most max_connections.
C3_Limits ==
    /\ \A o \in Origins : Cardinality(NonClosed(o)) <= MaxPerHost
    /\ Cardinality({c \in Pooled : state[c] # "closed"}) <= MaxTotal

\* C4: a connection is an entry of the pool map if and only if its state is
\* IDLE.
C4_MapIffIdle ==
    \A c \in Pooled : InMap(poolMap, c) <=> state[c] = "idle"

\* C5: reuse law.  A pull of a response body on an exchange without
\* Connection: close that meets no transport failure leaves the connection
\* usable: ACTIVE while body remains, IDLE once the body has ended; it never
\* closes the connection.
C5_ReuseLaw ==
    \A t \in Tasks :
        ( /\ op[t].name = "next" /\ Done(t)
          /\ op[t].pre.st = "active" /\ ~op[t].pre.eob
          /\ keepAlive[op[t].conn]
          /\ res[t] \notin TransportFailures \cup {"runtime"} )
        => /\ op[t].post.st \in {"active", "idle"}
           /\ op[t].post.eob => op[t].post.st = "idle"

\* C6: through PooledHTTPClient a leased connection goes back to the pool only
\* when its response body has terminated or been closed: while the body of
\* the response an exchange returned is neither at its end nor closed, the
\* connection is still leased to the caller and counted by the pool.
C6_ReturnedWhenDrained ==
    \A c \in Pooled :
        state[c] = "active" /\ rs[c].made /\ ~rs[c].eob /\ ~rs[c].closed
            => holder[c] # {} /\ InMap(poolMap, c)

\* C7: a handle_request that fails with a transport error, a timeout or a
\* protocol error has, when the error reaches the caller, left the connection
\* CLOSED with its stream closed, and the call performs no further I/O.
C7_FailureCloses ==
    \A t \in Tasks :
        op[t].name = "hr" /\ res[t] \in TransportFailures
            => /\ pc[t] \notin HRPhases
               /\ op[t].post.st = "closed" /\ op[t].post.sc
               /\ state[op[t].conn] = "closed" /\ streamClosed[op[t].conn]

\* a handle_request that had written its head failed on a later write or read
C7_Witness ==
    \E t \in Tasks :
        /\ op[t].name = "hr" /\ res[t] \in TransportFailures
        /\ op[t].pre.st = "new" /\ op[t].wrote
        /\ op[t].post.st = "closed"

\* C8: a handle_request rejected because the connection is ACTIVE or CLOSED
\* leaves the connection's state and its stream as they were.
C8_RejectionHarmless ==
    \A t \in Tasks :
        op[t].name = "hr" /\ res[t] \in {"busy", "closed"}
            => /\ op[t].post.st = op[t].pre.st
               /\ op[t].post.sc = op[t].pre.sc

\* C9: a body pull that meets a peer close, a read error or a read timeout
\* before the declared length has been delivered leaves the connection CLOSED
\* with its stream closed.
C9_ShortBodyCloses ==
    \A t \in Tasks :
        op[t].name = "next" /\ Done(t) /\ res[t] \in TransportFailures
            => op[t].post.st = "closed" /\ op[t].post.sc

\* C10: aclose() on a response body whose end-of-body has not been reached
\* leaves the owning connection CLOSED with its stream closed, never IDLE.
C10_EarlyCloseCloses ==
    \A t \in Tasks :
        op[t].name = "aclose" /\ ~op[t].pre.eob
            => /\ op[t].post.st = "closed" /\ op[t].post.sc
               /\ state[op[t].conn] = "closed"

\* a body was closed early while its exchange was still ACTIVE
C10_Witness ==
    \E t \in Tasks :
        /\ op[t].name = "aclose" /\ ~op[t].pre.eob
        /\ op[t].pre.st = "active" /\ ~op[t].pre.sc
        /\ op[t].post.st = "closed"

Stopped == poolClosed /\ \A t \in Tasks : pc[t] # "stop_lock"

\* C12: after ConnectionPool.stop() has completed, every connection the pool
\* ever created is CLOSED, whether it is in the map, handed out to a caller or
\* was dropped from the map.
C12_StopClosesAll ==
    Stopped => \A c \in Pooled : state[c] = "closed"

\* C13: once ConnectionPool.stop() has been called, every get_connection and
\* every PooledHTTPClient.request that starts fails at once with the pool's
\* ConnectionError, creates no connection and adds nothing to the pool map.
C13_StoppedRejects ==
    [][\A t \in Tasks, o \in Origins :
          ( /\ poolClosed
            /\ \/ GetConnection(t, o)
               \/ \E strUrl \in BOOLEAN : ClientRequest(t, o, strUrl) )
          => /\ res'[t] = "pool_closed"
             /\ pc'[t] = "idle"
             /\ state' = state
             /\ poolMap' = poolMap]_vars

\* C14: after return_connection(conn), conn is an entry of the pool map
\* exactly when it was IDLE at the time of the call (a CLOSED or ACTIVE one is
\* removed), and a connection that is CLOSED and outside the map is never put
\* into the map.
C14_ReturnKeepsIdleOnly ==
    /\ [](\A t \in Tasks :
             op[t].name = "return" /\ pc[t] = "idle" /\ res[t] = "ok"
                 => (InMap(poolMap, op[t].conn) <=> op[t].pre.st = "idle"))
    /\ [][\A c \in ConnIds :
             state[c] = "closed" /\ ~InMap(poolMap, c) => ~InMap(poolMap', c)]_vars

\* what get_connection finds for origin o: no IDLE entry to reuse, and the
\* entries that have not expired fill the origin's limit or the total limit
CapacityReached(o) ==
    LET live == [p \in Origins |-> Unexpired(poolMap[p])] IN
    /\ ~HasIdle(live[o])
    /\ \/ Len(live[o]) >= MaxPerHost
       \/ TotalConnections(live) >= MaxTotal

C16_CancelCloses ==
    \A t \in Tasks :
        op[t].name = "hr" /\ res[t] = "cancelled"
            => op[t].post.st = "closed" /\ op[t].post.sc

\* C17: a connection is IDLE only while the number of requests it has served
\* is below max_requests: the exchange that reaches max_requests leaves it
\* CLOSED, not IDLE.
C17_IdleBelowCap ==
    \A c \in ConnIds : state[c] = "idle" => requestCount[c] < MaxRequests

\* no step takes a connection out of CLOSED
ClosedStays ==
    [][\A c \in ConnIds : state[c] = "closed" => state'[c] = "closed"]_vars

\* C18 (as stated): CLOSED is absorbing, and handle_request on a CLOSED
\* connection fails with ConnectionError('Connection is closed') without
\* writing to the stream.
C18_ClosedOnly ==
    /\ ClosedStays
    /\ [](\A t \in Tasks :
             op[t].name = "hr" /\ op[t].pre.st = "closed"
                 => res[t] = "closed" /\ ~op[t].wrote)

\* C18 (amended): CLOSED is absorbing, and handle_request on a CLOSED
\* connection fails with a ConnectionError without writing to the stream; the
\* error is 'Connection is closed' unless the call takes request_count above
\* max_requests, which the cap check rejects first.
C18_ClosedAbsorbing ==
    /\ ClosedStays
    /\ [](\A t \in Tasks :
             op[t].name = "hr" /\ op[t].pre.st = "closed"
                 => /\ res[t] \in {"closed", "exceeded"}
                    /\ res[t] = "exceeded" => requestCount[op[t].conn] > MaxRequests
                    /\ ~op[t].wrote
                    /\ op[t].post.st = "closed")

\* handle_request was refused on a pooled connection that an earlier exchange
\* had left CLOSED
C18_Witness ==
    \E t \in Tasks :
        /\ op[t].name = "hr" /\ op[t].pre.st = "closed" /\ res[t] = "closed"
        /\ op[t].org \in Origins
        /\ requestCount[op[t].conn] > 1

\* the body of connection c has terminated, been closed, or failed in a pull
BodyOver(c) ==
    rs[c].eob \/ rs[c].closed \/ rs[c].coro = "spent" \/ rs[c].iter = "chunk"

\* C19: whatever pulls and aclose calls a response body sees, it calls the
\* connection's _response_closed exactly once: never twice, and once by the
\* time the body has terminated, been closed or failed.
C19_NotifiedOnce ==
    \A c \in ConnIds :
        rs[c].made => /\ rs[c].notified <= 1
                      /\ BodyOver(c) => rs[c].notified = 1

\* C20: close is idempotent.  The first close() of a connection leaves it
\* CLOSED with its stream closed; a close() of a CLOSED connection, an aclose()
\* of a closed response body and an aclose() of a closed request body change
\* nothing: no state, no further stream close, no engine callback.
C20_CloseIdempotent ==
    [][\A t \in Tasks, c \in ConnIds :
          /\ ConnClose(t, c) => /\ state'[c] = "closed" /\ streamClosed'[c]
                                /\ state[c] = "closed" => UNCHANGED connVars
          /\ BodyAclose(t, c) /\ rs[c].closed => UNCHANGED connVars
          /\ ReqAclose(t) /\ reqStream[t].closed =>
                 UNCHANGED <<connVars, reqStream>>]_vars

\* close() was called on a connection that was CLOSED already, by a caller
\* whose request stream and response body are closed too
C20_Witness ==
    \E t \in Tasks :
        /\ op[t].name = "close" /\ op[t].pre.st = "closed" /\ res[t] = "ok"
        /\ reqStream[t].closed
        /\ rs[op[t].conn].closed

\* C21: a pull on a response body that its caller has not closed gives the next
\* chunk the engine read for the body, or ends the iteration normally at the
\* end of the body; it fails only when the transport fails or when the pull
\* was made without an iteration under way.
C21_DrainYieldsBody ==
    \A t \in Tasks :
        (op[t].name = "next" /\ Done(t) /\ ~rs[op[t].conn].closed)
            => res[t] \in {"chunk", "stop", "runtime"} \cup TransportFailures

\* what a pull raises when it does not return a chunk or end the iteration
PullErrors == {"stream_error", "h11_local", "runtime"} \cup TransportFailures

BodyTaken(c) ==
    /\ rs[c].made /\ rs[c].iterated
    /\ rs[c].eob \/ rs[c].iter = "chunk"
    /\ bodyLeft[c] = 0 /\ buffered[c] = 0

C24_ChunkedWins ==
    \A t \in Tasks :
        (/\ op[t].name = "next" /\ Done(t)
         /\ rs[op[t].conn].chunked /\ rs[op[t].conn].declared >= 0
         /\ ~rs[op[t].conn].closed)
            => res[t] \in {"chunk", "stop", "runtime"} \cup TransportFailures

C27_SinglePass ==
    \A t \in Tasks :
        Len(reqStream[t].passes) >= 2 => reqStream[t].passes[2] = 0

\* C27: a request stream over an async producer is single-pass: once an
\* iteration has run to its end, the next one yields nothing.
C27_AsyncSinglePass ==
    \A t \in Tasks :
        (reqStream[t].kind = "async" /\ Len(reqStream[t].passes) >= 2)
            => reqStream[t].passes[2] = 0

\* an async producer of at least one chunk has been iterated to its end twice
C27_Witness ==
    \E t \in Tasks :
        /\ reqStream[t].kind = "async" /\ reqStream[t].size > 0
        /\ Len(reqStream[t].passes) >= 2
        /\ reqStream[t].passes[1] = reqStream[t].size

\* C28 as stated: whatever its input, a request stream iterated to its end a
\* second time yields what the first iteration yielded.
C28_Reiterable ==
    \A t \in Tasks :
        Len(reqStream[t].passes) >= 2
            => reqStream[t].passes[2] = reqStream[t].passes[1]

\* C28: a request stream over bytes or a list of chunks starts again from its
\* first chunk at every iteration: each iteration that runs to its end yields
\* all the chunks of the input, the second what the first yielded.
C28_StaticReiterable ==
    \A t \in Tasks :
        reqStream[t].kind \in {"bytes", "list"}
            => \A i \in 1..Len(reqStream[t].passes) :
                   reqStream[t].passes[i] = ChunksOf(reqStream[t])

\* a list of at least one chunk has been iterated to its end twice
C28_Witness ==
    \E t \in Tasks :
        /\ reqStream[t].kind = "list" /\ reqStream[t].size > 0
        /\ Len(reqStream[t].passes) >= 2

\* C29: RequestStream(...) with a content_length that differs from the size of
\* a bytes or list input raises ValueError and with the right one succeeds;
\* over an async producer it succeeds with any content_length that is not
\* negative.
C29_LengthChecked ==
    \A t \in Tasks :
        (op[t].name = "req_init" /\ Done(t) /\ reqStream[t].args.cl >= 0)
            => IF reqStream[t].args.kind = "async"
               THEN res[t] = "ok"
               ELSE res[t] = "ok" <=> reqStream[t].args.cl = reqStream[t].args.size

\* C30: handle_request sends the body of a request whose headers carry no
\* framing header, under a framing the engine chooses from the body's own
\* settings: the body is never refused for want of a declared length.
C30_EngineFrames ==
    \A t \in Tasks :
        (op[t].name = "hr" /\ Done(t)) => res[t] # "h11_length"

\* a caller holds connection c: get_connection gave it and it is not returned
Leased(c) == holder[c] # {}

\* C31: the expiry scan of a get_connection and the reaper leave alone every
\* connection that a caller holds: it stays in the pool map and is not closed.
C31_LeaseProtected ==
    [][(ReaperTick \/ \E t \in Tasks : GetConnLocked(t))
          => \A c \in ConnIds :
                 Leased(c)
                     => /\ InMap(poolMap, c) => InMap(poolMap', c)
                        /\ state'[c] = state[c]
                        /\ streamClosed'[c] = streamClosed[c]]_vars

\* C32: no caller holds the pool lock while it waits for connect_tcp.
C32_NoLockAcrossIO ==
    \A t \in Tasks : pc[t] = "gc_connect" => poolLock # t

\* C33: an expired connection that leaves the pool map has been closed, state
\* and stream, by the step that removed it.
C33_ExpiredClosed ==
    [][\A c \in ConnIds :
          (HasExpired(c) /\ InMap(poolMap, c) /\ ~InMap(poolMap', c))
              => state'[c] = "closed" /\ streamClosed'[c]]_vars

\* C34: a pull or an aclose on the body of an earlier response, made while a
\* newer handle_request is in flight on the connection (state ACTIVE), is
\* rejected with an error and changes neither the state nor the stream.
C34_OldBodyRejected ==
    [][\A t \in Tasks, c \in ConnIds :
          (/\ BodyNext(t, c) \/ BodyAclose(t, c)
           /\ state[c] = "active"
           /\ InFlight(c) # {})
              => /\ res'[t] \in {"stream_error", "runtime"}
                 /\ state'[c] = state[c]
                 /\ streamClosed'[c] = streamClosed[c]]_vars

\* C36: max_requests is a hard cap. A handle_request that writes request bytes
\* is one of the first max_requests calls on its connection, and the counter
\* grows by one with every call and never goes back, so at most max_requests
\* exchanges write; a call beyond the cap fails with ConnectionError, has
\* written nothing and leaves the connection CLOSED with its stream closed.
C36_HardCap ==
    /\ [](\A t \in Tasks :
             op[t].name = "hr"
                 => /\ (op[t].wrote \/ op[t].wire > 0) => op[t].pre.rc < MaxRequests
                    /\ (Done(t) /\ op[t].pre.rc >= MaxRequests)
                           => /\ res[t] = "exceeded"
                              /\ ~op[t].wrote /\ op[t].wire = 0
                              /\ op[t].post.st = "closed" /\ op[t].post.sc)
    /\ [][\A c \in ConnIds :
              /\ requestCount'[c] \in {requestCount[c], requestCount[c] + 1}
              /\ (\E t \in Tasks, rq \in Requests : HRStart(t, c, rq))
                     => requestCount'[c] = requestCount[c] + 1]_vars

\* the call after max_requests exchanges, on a connection that was IDLE, is
\* refused
C36_Witness ==
    \E t \in Tasks :
        /\ op[t].name = "hr" /\ Done(t)
        /\ op[t].pre.rc = MaxRequests /\ op[t].pre.st = "idle"
        /\ res[t] = "exceeded" /\ op[t].post.st = "closed"

\* the sending positions of handle_request
SendPhases == {"hr_send_head", "hr_send_body", "hr_send_eom"}

\* C37: within an exchange every write comes before the first read: a call
\* that is still sending has read nothing, and a step that reads from the
\* stream of a connection is taken either by a handle_request that has sent
\* its whole request (head written, h11 past EndOfMessage) and is parsing the
\* response head, or by a body pull that is pending; nothing is read between
\* pulls.
C37_WritesBeforeReads ==
    /\ [](\A t \in Tasks : pc[t] \in SendPhases => op[t].read = 0 /\ op[t].recv = 0)
    /\ [][\A c \in ConnIds :
              (\/ \E t \in Tasks : op[t].conn = c /\ op'[t].conn = c
                                    /\ op'[t].read > op[t].read
               \/ rs'[c].received # rs[c].received)
                  => \E t \in Tasks :
                         /\ op[t].conn = c
                         /\ \/ /\ pc[t] = "hr_recv_head"
                               /\ ourState[c] \in {"DONE", "MUST_CLOSE"}
                               /\ op[t].wire >= HeadBytes
                               /\ treq[t] = NoReq
                            \/ /\ pc[t] = "body_read"
                               /\ op[t].name = "next"
                               /\ rs[c].coro = "running"]_vars

\* an exchange whose request had a body has written head and body and then
\* read the response head
C37_Witness ==
    \E t \in Tasks :
        /\ op[t].name = "hr" /\ Done(t) /\ res[t] = "ok"
        /\ op[t].wire = HeadBytes + 1
        /\ op[t].read > 0

\* C38: a connection that get_connection returns belongs to the requested
\* origin and is either NEW, just created, or IDLE with an idle age of at most
\* keep_alive_timeout; it is never CLOSED, ACTIVE or expired.
C38_ReturnsUsable ==
    \A t \in Tasks :
        (op[t].name = "get" /\ Done(t) /\ res[t] = "ok")
            => LET c == op[t].conn IN
               /\ c \in ConnIds
               /\ origin[c] = op[t].org
               /\ InMap(poolMap, c)
               /\ op[t].post.st \in {"new", "idle"}
               /\ op[t].post.st = "new" => op[t].post.rc = 0 /\ ~op[t].post.sc
               /\ op[t].post.st = "idle"
                      => /\ ~op[t].post.sc
                         /\ idleSince[c] # -1
                         /\ now - idleSince[c] <= KeepAliveTimeout

\* get_connection has returned a connection that had been idle for exactly
\* keep_alive_timeout
C38_Witness ==
    \E t \in Tasks :
        /\ op[t].name = "get" /\ Done(t) /\ res[t] = "ok"
        /\ op[t].post.st = "idle"
        /\ op[t].post.rc > 0
        /\ now - idleSince[op[t].conn] = KeepAliveTimeout

\* C40: a read that has received at least one byte from a peer that keeps the
\* connection open returns those bytes; it does not wait for max bytes or for
\* the peer to close.
C40_ReturnsWhatArrived ==
    [](sock.phase = "wait" /\ sock.data > 0 /\ ~sock.closed
          => <>(sock.phase = "done" \/ sock.closed))

\* C35: while the pool is started and not stopped, a connection that is IDLE
\* in the pool for longer than keep_alive_timeout is eventually closed by the
\* reaper (unless an exchange takes it out of IDLE or the pool is stopped).
C35_ReaperCloses ==
    \A c \in ConnIds :
        []((InMap(poolMap, c) /\ HasExpired(c) /\ reaper = "running" /\ ~poolClosed)
              => <>(state[c] # "idle" \/ poolClosed))

\* the actor that holds the lock actor a waits for (0: a waits for no lock)
WaitsFor(a) == IF At(a, "acq") THEN LockOwner(Head(prog[a]).l) ELSE 0

\* no set of actors waits in a circle for locks its own members hold
NoLockCycle ==
    ~\E S \in SUBSET Actors : S # {} /\ \A a \in S : WaitsFor(a) \in S

\* C39: the pool lock and the state locks never deadlock: no interleaving of
\* get_connection, return_connection, the reaper, stop, handle_request, body
\* pulls and close leaves tasks waiting in a circle, and, connects and stream
\* closes ending, every operation that was started completes.
C39_NoDeadlock ==
    /\ []NoLockCycle
    /\ \A a \in Actors : (prog[a] # <<>>) ~> (prog[a] = <<>>)

\* a caller waits for the pool lock while its holder waits for the state lock
\* of a connection whose close by a third task is under way
C39_Witness ==
    \E a, b, d \in Actors :
        /\ a # b /\ b # d /\ a # d
        /\ WaitsFor(a) = b /\ Head(prog[a]).l = 0
        /\ WaitsFor(b) = d /\ Head(prog[b]).l # 0
        /\ At(d, "io")
====
